---- MODULE Spec2Model ----
(***************************************************************************)
(* Model of the spannerclosecheck analysis pass (pkg/analyzer).            *)
(*                                                                         *)
(* The pass receives a compilation unit (the packages of the program, the  *)
(* parsed files with their comment groups, and the SSA form of the source  *)
(* functions), builds the registry of Spanner resource types, scans every  *)
(* instruction of every source function and reports the resource values    *)
(* that have no deferred Close/Stop.                                       *)
(*                                                                         *)
(* One behaviour of the model is one run of deferOnlyAnalyzer on one unit. *)
(* The unit is chosen in Init and never changes; the run walks SrcFuncs    *)
(* with the cursor (fi, ii) and appends to diags.                          *)
(***************************************************************************)
EXTENDS Integers, Sequences, FiniteSets, TLC

VARIABLES
    pkgs,          \* pssa.Pkg.Prog.AllPackages(): sequence of [path, scope]
    files,         \* pass.Files / pass.Fset: sequence of [name, comments]
    srcFuncs,      \* pssa.SrcFuncs: sequence of [pos, instrs]
    spannerTypes,  \* the registry map[*types.Named]string of deferOnlyAnalyzer
    pc,            \* "start", "scan" or "done": position in deferOnlyAnalyzer
    fi,            \* index in srcFuncs of the function being checked
    ii,            \* 0 on entry of checkFunc, else index of the next instruction
    diags,         \* the diagnostics reported so far through pass.Reportf
    consulted      \* the checks called by the last iteration of the
                   \* instruction loop, in the order of the calls

vars == <<pkgs, files, srcFuncs, spannerTypes, pc, fi, ii, diags, consulted>>

(***************************************************************************)
(* Strings that the code searches (strings.Contains, strings.HasSuffix)    *)
(* are sequences of one-character strings, so that a search is computed.   *)
(***************************************************************************)
Contains(s, sub) ==
    \E k \in 0..(Len(s) - Len(sub)) : SubSeq(s, k + 1, k + Len(sub)) = sub

HasSuffix(s, suf) ==
    /\ Len(s) >= Len(suf)
    /\ SubSeq(s, Len(s) - Len(suf) + 1, Len(s)) = suf

Range(s) == {s[k] : k \in DOMAIN s}

\* The literals of the suppression filter.
nolintPrefix == <<"n", "o", "l", "i", "n", "t">>
colon == <<":">>
nolintSpanner ==
    nolintPrefix \o colon \o
    <<"s", "p", "a", "n", "n", "e", "r", "c", "l", "o", "s", "e",
      "c", "h", "e", "c", "k">>
nolintAll == nolintPrefix \o colon \o <<"a", "l", "l">>

\* The literals of the generated-file exclusion.
sufYoGo == <<".", "y", "o", ".", "g", "o">>
sufPbGo == <<".", "p", "b", ".", "g", "o">>
sufGenGo == <<"_", "g", "e", "n", ".", "g", "o">>
generatedMarker == <<"g", "e", "n", "e", "r", "a", "t", "e", "d">>

\* Only comments before this line count as file-level directives.
TopLines == 10

pathGoogleSpanner == "cloud.google.com/go/spanner"
typeNameReadOnlyTransaction == "ReadOnlyTransaction"
typeNameBatchReadOnlyTransaction == "BatchReadOnlyTransaction"
typeNameRowIterator == "RowIterator"
methodNameClose == "Close"
methodNameStop == "Stop"
methodNameSingle == "Single"

(***************************************************************************)
(* Positions.  token.Pos is a [file, line] pair here; file 0 is a position *)
(* that pass.Fset.File maps to no file (token.NoPos).                      *)
(***************************************************************************)
NoPos == [file |-> 0, line |-> 0]

\* pass.Fset.File(pos): 0 stands for nil.
FsetFile(pos) == IF pos.file \in DOMAIN files THEN pos.file ELSE 0

(***************************************************************************)
(* Types.  A types.Type is [ptr, pkg, name]: ptr levels of *types.Pointer  *)
(* around the named type pkg.name; name "" is a type that is not a         *)
(* *types.Named (a tuple, a basic type).  A *types.Named is identified by  *)
(* its [pkg, name] pair.                                                   *)
(***************************************************************************)
Named(p, n) == [pkg |-> p, name |-> n]

EmptyMap == [x \in {} |-> ""]

\* registerType mutant: the name is registered without the scope lookup.
registerTypeUnchecked(pkg, name, types) ==
    [x \in (DOMAIN types) \cup {Named(pkg.path, name)} |->
        IF x = Named(pkg.path, name) THEN name ELSE types[x]]

\* registerType: look the name up in the package scope; a name that is
\* absent, or that is not a named type, registers nothing.
registerType(pkg, name, types) ==
    IF name \in pkg.scope
    THEN [x \in (DOMAIN types) \cup {Named(pkg.path, name)} |->
            IF x = Named(pkg.path, name) THEN name ELSE types[x]]
    ELSE types

\* The registration loop of deferOnlyAnalyzer: the first package whose path
\* is the Spanner path registers the three names, then the loop breaks.
RegisteredTypes ==
    LET hits == {k \in DOMAIN pkgs : pkgs[k].path = pathGoogleSpanner}
    IN  IF hits = {}
        THEN EmptyMap
        ELSE LET pkg == pkgs[CHOOSE k \in hits : \A j \in hits : k <= j]
                 t1 == registerType(pkg, typeNameReadOnlyTransaction, EmptyMap)
                 t2 == registerType(pkg, typeNameBatchReadOnlyTransaction, t1)
             IN  registerType(pkg, typeNameRowIterator, t2)

\* getSpannerType mutant: every pointer level is stripped.
getSpannerTypeAnyDepth(t, types) ==
    IF t.name # "" /\ Named(t.pkg, t.name) \in DOMAIN types
    THEN types[Named(t.pkg, t.name)]
    ELSE ""

\* getSpannerType: strip one pointer, then look the named type up.
getSpannerType(t, types) ==
    LET u == IF t.ptr > 0 THEN [t EXCEPT !.ptr = @ - 1] ELSE t
    IN  IF u.ptr = 0 /\ u.name # "" /\ Named(u.pkg, u.name) \in DOMAIN types
        THEN types[Named(u.pkg, u.name)]
        ELSE ""

(***************************************************************************)
(* SSA.  A function is [pos, instrs]; instrs lists the instructions of     *)
(* fn.Blocks in scan order.  An instruction is                             *)
(*   [op, type, method, value, pos, ops]                                   *)
(* op:     the Go type of the instruction (Call, Extract, UnOp, Phi, Alloc, *)
(*         FieldAddr, TypeAssert and ChangeType are ssa.Value; Defer,      *)
(*         Return and Store are not);                                      *)
(* type:   val.Type();                                                     *)
(* method: Common().Method.Name(), "" when Common().Method is nil;         *)
(* value:  Common().Value.Name();                                          *)
(* pos:    Pos();                                                          *)
(* ops:    the operands that are instructions of the same function, as     *)
(*         indices into instrs.  Extract.Tuple is ops[1]; Return.Results   *)
(*         is ops.                                                         *)
(***************************************************************************)
ValueOps ==
    {"Call", "Extract", "UnOp", "Phi", "Alloc", "FieldAddr", "TypeAssert",
     "ChangeType"}

IsValue(in) == in.op \in ValueOps

\* val.Referrers(): the instructions that have the value as an operand.
Referrers(fn, i) ==
    {j \in DOMAIN fn.instrs : i \in Range(fn.instrs[j].ops)}

\* hasDeferredClose mutant: only a deferred result of a Close/Stop method
\* call covers, a defer that uses the value directly does not.
hasDeferredCloseNoDirectDefer(fn, i) ==
    \E r \in Referrers(fn, i) :
        /\ fn.instrs[r].op = "Call"
        /\ fn.instrs[r].method # ""
        /\ fn.instrs[r].method \in {methodNameClose, methodNameStop}
        /\ \E cr \in Referrers(fn, r) : fn.instrs[cr].op = "Defer"

\* hasDeferredClose mutant: a defer that uses the value directly covers only
\* when the deferred callee is named Close or Stop.
hasDeferredCloseNamedDefer(fn, i) ==
    \E r \in Referrers(fn, i) :
        \/ /\ fn.instrs[r].op = "Defer"
           /\ fn.instrs[r].value \in {methodNameClose, methodNameStop}
        \/ /\ fn.instrs[r].op = "Call"
           /\ fn.instrs[r].method # ""
           /\ fn.instrs[r].method \in {methodNameClose, methodNameStop}
           /\ \E cr \in Referrers(fn, r) : fn.instrs[cr].op = "Defer"

\* hasDeferredClose mutant: a store of the value, or a call that takes it
\* as an argument, covers as well.
hasDeferredCloseIndirect(fn, i) ==
    \E r \in Referrers(fn, i) :
        \/ fn.instrs[r].op \in {"Defer", "Store", "Call"}

\* hasDeferredClose mutant: any Close/Stop method call covers.
hasDeferredCloseAnyCall(fn, i) ==
    \E r \in Referrers(fn, i) :
        \/ fn.instrs[r].op = "Defer"
        \/ /\ fn.instrs[r].op = "Call"
           /\ fn.instrs[r].value \in {methodNameClose, methodNameStop}

hasDeferredClose(fn, i) ==
    \E r \in Referrers(fn, i) :
        \/ fn.instrs[r].op = "Defer"
        \/ /\ fn.instrs[r].op = "Call"
           /\ fn.instrs[r].method # ""
           /\ fn.instrs[r].method \in {methodNameClose, methodNameStop}
           /\ \E cr \in Referrers(fn, r) : fn.instrs[cr].op = "Defer"

\* isFromSingle mutant: the exemption is never granted.
isFromSingleNever(in) == FALSE

isFromSingle(in) ==
    /\ in.op = "Call"
    /\ \/ in.method # "" /\ in.method = methodNameSingle
       \/ in.value = methodNameSingle

\* isReturnedFromFunction mutant: the exemption is never granted.
isReturnedFromFunctionNever(fn, i) == FALSE

isReturnedFromFunction(fn, i) ==
    \E r \in Referrers(fn, i) :
        /\ fn.instrs[r].op = "Return"
        /\ \E k \in DOMAIN fn.instrs[r].ops : fn.instrs[r].ops[k] = i

(***************************************************************************)
(* Files and comments.  A file is [name, comments]; comments is f.Comments *)
(* in source order, each comment group a [line, list] with line the line   *)
(* of cg.Pos() and list the texts of its comments.  The k-th comment of a  *)
(* group is written on line  line + k - 1.                                 *)
(***************************************************************************)
\* hasFileLevelNolint mutant: file-level directives are ignored.
hasFileLevelNolintNever(pos) == FALSE

\* The loop over f.Comments breaks at the first group after line 10, so a
\* group is examined when no group before it, nor itself, is after line 10.
hasFileLevelNolint(pos) ==
    LET file == FsetFile(pos)
    IN  /\ file # 0
        /\ \E g \in DOMAIN files[file].comments :
               /\ \A h \in 1..g : files[file].comments[h].line <= TopLines
               /\ \E c \in DOMAIN files[file].comments[g].list :
                      LET text == files[file].comments[g].list[c]
                      IN  \/ Contains(text, nolintSpanner)
                          \/ Contains(text, nolintAll)

\* isGeneratedFile mutant: the file name is not looked at.
isGeneratedFileByDirectiveOnly(pos) ==
    LET file == FsetFile(pos)
    IN  /\ file # 0
        /\ hasFileLevelNolint(pos)

isGeneratedFile(pos) ==
    LET file == FsetFile(pos)
    IN  /\ file # 0
        /\ \/ HasSuffix(files[file].name, sufYoGo)
           \/ HasSuffix(files[file].name, sufPbGo)
           \/ HasSuffix(files[file].name, sufGenGo)
           \/ Contains(files[file].name, generatedMarker)
           \/ hasFileLevelNolint(pos)

\* hasNolintDirective mutant: any text with the nolint prefix suppresses.
hasNolintDirectiveAnyPrefix(pos) ==
    LET file == FsetFile(pos)
        line == pos.line
    IN  /\ file # 0
        /\ \E g \in DOMAIN files[file].comments :
               LET commentLine == files[file].comments[g].line
               IN  /\ commentLine = line \/ commentLine = line - 1
                   /\ \E c \in DOMAIN files[file].comments[g].list :
                          Contains(files[file].comments[g].list[c], nolintPrefix)

hasNolintDirective(pos) ==
    LET file == FsetFile(pos)
        line == pos.line
    IN  /\ file # 0
        /\ \E g \in DOMAIN files[file].comments :
               LET commentLine == files[file].comments[g].line
               IN  /\ commentLine = line \/ commentLine = line - 1
                   /\ \E c \in DOMAIN files[file].comments[g].list :
                          LET text == files[file].comments[g].list[c]
                          IN  \/ Contains(text, nolintSpanner)
                              \/ Contains(text, nolintAll)
                              \/ /\ Contains(text, nolintPrefix)
                                 /\ ~Contains(text, colon)

(***************************************************************************)
(* Reporting.  A diagnostic is [pos, message, val]: pos and message are    *)
(* the arguments of pass.Reportf, val = <<function, instruction>> records  *)
(* which value the report was made for.  The message is the sequence of    *)
(* the pieces of the formatted string.                                     *)
(***************************************************************************)
mustBeDeferred == "() must be deferred"

\* The format "%s.Close() must be deferred" applied to typeName.
ReportMessage(typeName) == <<typeName, ".", methodNameClose, mustBeDeferred>>

\* ReportPos mutant: the position of the value itself is always used.
ReportPosOfValue(fn, i) == fn.instrs[i].pos

\* The position of the value; for an Extract, the position of its tuple.
ReportPos(fn, i) ==
    IF fn.instrs[i].op = "Extract" /\ Len(fn.instrs[i].ops) > 0
    THEN fn.instrs[fn.instrs[i].ops[1]].pos
    ELSE fn.instrs[i].pos

\* checkOrder mutant: the positional filter is called first, the other
\* checks only when it finds no directive.
checkOrderFilterFirst(f, i) ==
    LET fn == srcFuncs[f]
        in == fn.instrs[i]
        typeName == IF IsValue(in) THEN getSpannerType(in.type, spannerTypes)
                    ELSE ""
    IN  IF ~IsValue(in) THEN <<>>
        ELSE <<"getSpannerType">> \o
             (IF typeName = "" THEN <<>>
              ELSE <<"hasNolintDirective">> \o
                   (IF hasNolintDirective(ReportPos(fn, i)) THEN <<>>
                    ELSE <<"hasDeferredClose">>))

\* The checks that the body of the instruction loop of checkFunc calls for
\* instruction i of fn, in the order of the calls.  && does not evaluate
\* its right operand when the left one is false.
checkOrder(f, i) ==
    LET fn == srcFuncs[f]
        in == fn.instrs[i]
        typeName == IF IsValue(in) THEN getSpannerType(in.type, spannerTypes)
                    ELSE ""
    IN  IF ~IsValue(in) THEN <<>>
        ELSE <<"getSpannerType">> \o
             (IF typeName = "" THEN <<>>
              ELSE IF typeName = typeNameReadOnlyTransaction
              THEN <<"isFromSingle">> \o
                   (IF isFromSingle(in) THEN <<>>
                    ELSE <<"hasDeferredClose">> \o
                         (IF hasDeferredClose(fn, i) THEN <<>>
                          ELSE <<"hasNolintDirective">>))
              ELSE IF typeName = typeNameRowIterator
              THEN <<"isReturnedFromFunction">> \o
                   (IF isReturnedFromFunction(fn, i) THEN <<>>
                    ELSE <<"hasDeferredClose">> \o
                         (IF hasDeferredClose(fn, i) THEN <<>>
                          ELSE <<"hasNolintDirective">>))
              ELSE <<"hasDeferredClose">> \o
                   (IF hasDeferredClose(fn, i) THEN <<>>
                    ELSE <<"hasNolintDirective">>))

\* checkInstr mutant: a report is withheld when a diagnostic with the same
\* message has been made before, in this function or in another one.
checkInstrOncePerMessage(f, i) ==
    LET fn == srcFuncs[f]
        in == fn.instrs[i]
        typeName == IF IsValue(in) THEN getSpannerType(in.type, spannerTypes)
                    ELSE ""
    IN  IF typeName = "" THEN <<>>
        ELSE IF typeName = typeNameReadOnlyTransaction /\ isFromSingle(in)
        THEN <<>>
        ELSE IF typeName = typeNameRowIterator /\ isReturnedFromFunction(fn, i)
        THEN <<>>
        ELSE IF hasDeferredClose(fn, i) THEN <<>>
        ELSE IF hasNolintDirective(ReportPos(fn, i)) THEN <<>>
        ELSE IF \E k \in DOMAIN diags :
                    /\ diags[k].message = ReportMessage(typeName)
                    /\ diags[k].val # <<f, i>>
        THEN <<>>
        ELSE <<[pos |-> ReportPos(fn, i),
                message |-> ReportMessage(typeName),
                val |-> <<f, i>>]>>

\* checkInstr mutant: the return exemption is granted to every type.
checkInstrReturnExemptsAll(f, i) ==
    LET fn == srcFuncs[f]
        in == fn.instrs[i]
        typeName == IF IsValue(in) THEN getSpannerType(in.type, spannerTypes)
                    ELSE ""
    IN  IF typeName = "" THEN <<>>
        ELSE IF typeName = typeNameReadOnlyTransaction /\ isFromSingle(in)
        THEN <<>>
        ELSE IF isReturnedFromFunction(fn, i)
        THEN <<>>
        ELSE IF hasDeferredClose(fn, i) THEN <<>>
        ELSE IF hasNolintDirective(ReportPos(fn, i)) THEN <<>>
        ELSE <<[pos |-> ReportPos(fn, i),
                message |-> ReportMessage(typeName),
                val |-> <<f, i>>]>>

\* checkInstr mutant: the report is made twice.
checkInstrTwice(f, i) ==
    LET fn == srcFuncs[f]
        in == fn.instrs[i]
        typeName == IF IsValue(in) THEN getSpannerType(in.type, spannerTypes)
                    ELSE ""
        d == [pos |-> ReportPos(fn, i),
              message |-> ReportMessage(typeName),
              val |-> <<f, i>>]
    IN  IF typeName = "" THEN <<>>
        ELSE IF typeName = typeNameReadOnlyTransaction /\ isFromSingle(in)
        THEN <<>>
        ELSE IF typeName = typeNameRowIterator /\ isReturnedFromFunction(fn, i)
        THEN <<>>
        ELSE IF hasDeferredClose(fn, i) THEN <<>>
        ELSE IF hasNolintDirective(ReportPos(fn, i)) THEN <<>>
        ELSE <<d, d>>

\* The body of the instruction loop of checkFunc for instruction i of fn:
\* the diagnostics it reports (none or one).
checkInstr(f, i) ==
    LET fn == srcFuncs[f]
        in == fn.instrs[i]
        typeName == IF IsValue(in) THEN getSpannerType(in.type, spannerTypes)
                    ELSE ""
    IN  IF typeName = "" THEN <<>>
        ELSE IF typeName = typeNameReadOnlyTransaction /\ isFromSingle(in)
        THEN <<>>
        ELSE IF typeName = typeNameRowIterator /\ isReturnedFromFunction(fn, i)
        THEN <<>>
        ELSE IF hasDeferredClose(fn, i) THEN <<>>
        ELSE IF hasNolintDirective(ReportPos(fn, i)) THEN <<>>
        ELSE <<[pos |-> ReportPos(fn, i),
                message |-> ReportMessage(typeName),
                val |-> <<f, i>>]>>

(***************************************************************************)
(* The units of the model.  A unit is [pkgs, files, funcs].  Functions are *)
(* assembled from snippets: the instructions that produce one value,       *)
(* followed by the instructions that use it.                               *)
(***************************************************************************)
MaxUses == 2        \* use sites per value
MaxLine == 13       \* last line of a file
MaxGroupLen == 2    \* comments per comment group
MaxFuncs == 2       \* functions per unit

Lines == (TopLines - 1)..MaxLine

T(ptr, pkg, name) == [ptr |-> ptr, pkg |-> pkg, name |-> name]
NotNamed == T(0, "", "")
otherPath == "example.com/other"
ptrReadOnlyTransaction == T(1, pathGoogleSpanner, typeNameReadOnlyTransaction)
ptrBatchReadOnlyTransaction ==
    T(1, pathGoogleSpanner, typeNameBatchReadOnlyTransaction)
ptrRowIterator == T(1, pathGoogleSpanner, typeNameRowIterator)
ResourceTypes ==
    {ptrReadOnlyTransaction, ptrBatchReadOnlyTransaction, ptrRowIterator}
ValueTypes ==
    ResourceTypes \cup
    { T(0, pathGoogleSpanner, typeNameRowIterator),
      T(2, pathGoogleSpanner, typeNameReadOnlyTransaction),
      T(1, pathGoogleSpanner, "ReadWriteTransaction"),
      T(1, pathGoogleSpanner, "Client"),
      T(1, otherPath, typeNameReadOnlyTransaction) }

Ins(op, type, method, value, pos, ops) ==
    [op |-> op, type |-> type, method |-> method, value |-> value,
     pos |-> pos, ops |-> ops]

At(f, l) == [file |-> f, line |-> l]

\* The instructions that produce a value of type t at position p; the value
\* is the last of them.
\*   direct:  v := callee()              (concrete function or method)
\*   invoke:  v := t0.callee()           (interface method)
\*   extract: v, err := callee()
\*   load:    v := *t0
Producer(kind, t, callee, p) ==
    CASE kind = "direct" -> <<Ins("Call", t, "", callee, p, <<>>)>>
      [] kind = "invoke" -> <<Ins("Call", t, callee, "t0", p, <<>>)>>
      [] kind = "extract" ->
            <<Ins("Call", NotNamed, "", callee, p, <<>>),
              Ins("Extract", t, "", "", NoPos, <<1>>)>>
      [] kind = "load" -> <<Ins("UnOp", t, "", "", p, <<>>)>>

ProducerKinds == {"direct", "invoke", "extract", "load"}
Callees == {"NewResource", methodNameSingle}

\* The instructions of one use of value c, placed from index k on.
\*   defer:   defer v.m()  /  defer m(v)        (m is the callee)
\*   call:    v.m()                             (concrete method, not deferred)
\*   invoke:  t1.m(v)                           (interface method, not deferred)
\*   invoked: defer t1.m(v)()                   (the result of the call is deferred)
\*   return:  return v
\*   store:   *t2 = v
Use(u, c, k, p) ==
    CASE u.kind = "defer" -> <<Ins("Defer", NotNamed, "", u.m, p, <<c>>)>>
      [] u.kind = "call" -> <<Ins("Call", NotNamed, "", u.m, p, <<c>>)>>
      [] u.kind = "invoke" -> <<Ins("Call", NotNamed, u.m, "t1", p, <<c>>)>>
      [] u.kind = "invoked" ->
            <<Ins("Call", NotNamed, u.m, "t1", p, <<c>>),
              Ins("Defer", NotNamed, "", "t3", p, <<k>>)>>
      [] u.kind = "return" -> <<Ins("Return", NotNamed, "", "", p, <<c>>)>>
      [] u.kind = "store" -> <<Ins("Store", NotNamed, "", "", p, <<c>>)>>

U(kind, m) == [kind |-> kind, m |-> m]

UseList ==
    << U("defer", methodNameClose), U("defer", methodNameStop),
       U("defer", "helper"),
       U("call", methodNameClose), U("call", methodNameStop),
       U("invoke", methodNameClose),
       U("invoked", methodNameClose), U("invoked", methodNameStop),
       U("invoked", "Query"),
       U("return", ""), U("store", "") >>

RECURSIVE AddUses(_, _, _, _)
AddUses(acc, c, us, p) ==
    IF us = {} THEN acc
    ELSE LET u == CHOOSE x \in us : \A y \in us : x <= y
         IN  AddUses(acc \o Use(UseList[u], c, Len(acc) + 1, p), c,
                     us \ {u}, p)

\* A value with its uses; all of it is written on the line of p.
Snippet(kind, t, callee, us, p) ==
    LET prod == Producer(kind, t, callee, p)
    IN  AddUses(prod, Len(prod), us, p)

\* The instructions in moved k places down the instruction list.
Shift(in, k) ==
    [j \in DOMAIN in |->
        [in[j] EXCEPT !.ops = [x \in DOMAIN @ |-> @[x] + k]]]

UseSets == {us \in SUBSET (DOMAIN UseList) : Cardinality(us) <= MaxUses}

Fn(p, instrs) == [pos |-> p, instrs |-> instrs]

\* Two snippets one after the other in one function body.
Body2(a, b) == a \o Shift(b, Len(a))

\* File names.
nameMain == <<"m", "a", "i", "n", ".", "g", "o">>
nameYo == <<"m">> \o sufYoGo
namePb == <<"m">> \o sufPbGo
nameGen == <<"m">> \o sufGenGo
nameGenerated == generatedMarker \o <<"/">> \o nameMain
FileNames == {nameMain, nameYo, namePb, nameGen, nameGenerated}

\* Comment texts.
slashes == <<"/", "/">>
txtTargeted == slashes \o nolintSpanner
txtAll == slashes \o nolintAll
txtBare == slashes \o nolintPrefix
txtOtherTool == slashes \o nolintPrefix \o colon \o <<"g", "o", "v", "e", "t">>
txtMisspelled ==
    slashes \o nolintPrefix \o colon \o
        <<"s", "p", "a", "n", "n", "e", "r", "c", "l", "o", "s", "e", "c", "h", "e", "k">>
txtPlain == slashes \o <<" ", "n", "o", "t", "e">>
DirectiveTexts == {txtTargeted, txtAll, txtBare}
Texts == DirectiveTexts \cup {txtOtherTool, txtMisspelled, txtPlain}

Group(l, list) == [line |-> l, list |-> list]

\* The texts of a comment group: at most one of them is not plain.
GroupLists ==
    { list \in UNION {[1..n -> Texts] : n \in 1..MaxGroupLen} :
        Cardinality({k \in DOMAIN list : list[k] # txtPlain}) <= 1 }

\* The lines a group is written on.
GroupLines(g) == g.line..(g.line + Len(g.list) - 1)

Groups ==
    { g \in {Group(l, list) : l \in Lines, list \in GroupLists} :
        GroupLines(g) \subseteq Lines }

File(name, comments) == [name |-> name, comments |-> comments]

\* A group of several line comments has no code on its lines: code before
\* a comment makes it a group of its own, and a line comment ends its line.
WellFormed(file, fn) ==
    \A g \in DOMAIN file.comments :
        Len(file.comments[g].list) > 1 =>
            \A k \in DOMAIN fn.instrs :
                fn.instrs[k].pos.line \notin GroupLines(file.comments[g])

spannerScope ==
    {typeNameReadOnlyTransaction, typeNameBatchReadOnlyTransaction,
     typeNameRowIterator}
Pkg(path, scope) == [path |-> path, scope |-> scope]
spannerPkg == Pkg(pathGoogleSpanner, spannerScope \cup {"ReadWriteTransaction", "Client"})
mainPkg == Pkg("example.com/main", {"Handler"})

Unit(ps, fs, fns) == [pkgs |-> ps, files |-> fs, funcs |-> fns]

\* Coverage units: one function with one value of every kind, type, callee
\* and set of uses, in a file without comments.
CoverageUnits ==
    { Unit(<<mainPkg, spannerPkg>>, <<File(nameMain, <<>>)>>,
           <<Fn(At(1, TopLines), Snippet(kind, t, callee, us, At(1, MaxLine)))>>) :
        kind \in ProducerKinds, t \in ValueTypes, callee \in Callees,
        us \in UseSets }

\* Suppression units: one function with a transaction (unused, or closed
\* without defer) and possibly an unused iterator, on any lines, in a file
\* with at most one comment group.
PlainSnippets ==
    { Snippet(kind, ptrReadOnlyTransaction, "NewResource", us, At(1, l)) :
        kind \in {"direct", "extract"}, us \in {{}, {4}}, l \in Lines }

SecondSnippets ==
    {<<>>} \cup
    { Snippet("direct", ptrRowIterator, "Query", {}, At(1, l)) : l \in Lines }

SuppressionUnits ==
    { u \in { Unit(<<mainPkg, spannerPkg>>, <<File(nameMain, cs)>>,
                   <<Fn(At(1, TopLines - 1), Body2(a, b))>>) :
                cs \in {<<>>} \cup {<<g>> : g \in Groups},
                a \in PlainSnippets, b \in SecondSnippets } :
        WellFormed(u.files[1], u.funcs[1]) }

\* File units: one or two files, generated or not, with or without a
\* comment around line 10, and functions with an uncovered value each.
FileChoices ==
    { File(nameMain, cs) :
        cs \in {<<>>} \cup
               { <<Group(l, <<t>>)>> :
                   l \in {TopLines, TopLines + 1},
                   t \in DirectiveTexts } }
    \cup { File(n, <<>>) : n \in FileNames }

FileLists == {<<a>> : a \in FileChoices} \cup (FileChoices \X FileChoices)

FileFuncs(nf) ==
    { Fn(At(f, MaxLine),
         Snippet("extract", ptrBatchReadOnlyTransaction, "NewResource", {}, At(f, MaxLine))) :
        f \in 1..nf }

FileUnits ==
    UNION { { Unit(<<spannerPkg>>, fs, fns) :
                fns \in UNION {[1..n -> FileFuncs(Len(fs))] : n \in 1..MaxFuncs} } :
            fs \in FileLists }

\* Registry units: the Spanner package is absent, or declares some of the
\* three names; the function has an uncovered transaction and iterator.
RegistryUnits ==
    { Unit(ps, <<File(nameMain, <<>>)>>,
           <<Fn(At(1, TopLines),
                Body2(Snippet("direct", ptrReadOnlyTransaction, "NewResource", {}, At(1, MaxLine)),
                      Snippet("direct", ptrRowIterator, "Query", {}, At(1, MaxLine))))>>) :
        ps \in {<<mainPkg>>, <<Pkg(otherPath, spannerScope)>>}
               \cup {<<mainPkg, Pkg(pathGoogleSpanner, sc)>> : sc \in SUBSET spannerScope} }

\* Indirect cleanup of the value c produced by prod, with m the deferred
\* method:
\*   variable: a := v; defer (*a).m()       (a is a cell in memory)
\*   field:    h.f = v; defer h.f.m()
\*   helper:   closeHelper(v)               (the helper defers inside)
Indirect(pattern, prod, t, m, p) ==
    LET c == Len(prod)
        cell == [t EXCEPT !.ptr = @ + 1]
    IN  CASE pattern = "variable" ->
                prod \o << Ins("Alloc", cell, "", "", p, <<>>),
                           Ins("Store", NotNamed, "", "", p, <<c + 1, c>>),
                           Ins("UnOp", t, "", "", p, <<c + 1>>),
                           Ins("Defer", NotNamed, "", m, p, <<c + 3>>) >>
          [] pattern = "field" ->
                prod \o << Ins("Alloc", T(1, "example.com/main", "Handler"), "", "", p, <<>>),
                           Ins("FieldAddr", cell, "", "", p, <<c + 1>>),
                           Ins("Store", NotNamed, "", "", p, <<c + 2, c>>),
                           Ins("FieldAddr", cell, "", "", p, <<c + 1>>),
                           Ins("UnOp", t, "", "", p, <<c + 4>>),
                           Ins("Defer", NotNamed, "", m, p, <<c + 5>>) >>
          [] pattern = "helper" ->
                prod \o << Ins("Call", NotNamed, "", "closeHelper", p, <<c>>) >>

IndirectPatterns == {"variable", "field", "helper"}

\* Indirect units: one function whose value is cleaned up indirectly.
IndirectUnits ==
    { Unit(<<mainPkg, spannerPkg>>, <<File(nameMain, <<>>)>>,
           <<Fn(At(1, TopLines),
                Indirect(pattern, Producer(kind, t, "NewResource", At(1, MaxLine)),
                         t, m, At(1, MaxLine)))>>) :
        pattern \in IndirectPatterns, kind \in {"direct", "extract"},
        t \in ResourceTypes, m \in {methodNameClose, methodNameStop} }

\* What a forwarding operation of kind op reads, for a handle of type t:
\*   UnOp:       v := *a              (a is a cell in memory)
\*   Phi:        v := phi [h, ...]    (h is a handle)
\*   TypeAssert: v := i.(t)           (i is an interface value)
\*   ChangeType: v := t(x)            (x has a type with the same structure)
ForwardSource(op, t, p) ==
    CASE op = "UnOp" -> Ins("Alloc", [t EXCEPT !.ptr = @ + 1], "", "", p, <<>>)
      [] op = "Phi" -> Ins("Call", t, "", "NewResource", p, <<>>)
      [] op = "TypeAssert" -> Ins("Call", NotNamed, "", "Get", p, <<>>)
      [] op = "ChangeType" ->
            Ins("Call", [t EXCEPT !.pkg = otherPath], "", "Get", p, <<>>)

ForwardOps == {"UnOp", "Phi", "TypeAssert", "ChangeType"}

\* A forwarding operation at position fp, the deferred cleanup of what it
\* reads ("source"), of its own value ("forward") or of nothing ("none"),
\* and then an unused iterator.
Forward(op, t, fp, deferred, p) ==
    << ForwardSource(op, t, p), Ins(op, t, "", "", fp, <<1>>) >>
    \o (CASE deferred = "source" ->
                <<Ins("Defer", NotNamed, "", methodNameClose, p, <<1>>)>>
           [] deferred = "forward" ->
                <<Ins("Defer", NotNamed, "", methodNameClose, p, <<2>>)>>
           [] deferred = "none" -> <<>>)
    \o << Ins("Call", ptrRowIterator, "", "Query", p, <<>>) >>

\* Forward units: a function with a forwarding operation, with or without
\* a position, followed by a function with an uncovered transaction.
ForwardUnits ==
    { Unit(<<mainPkg, spannerPkg>>, <<File(nameMain, <<>>)>>,
           << Fn(At(1, TopLines), Forward(op, t, fp, deferred, At(1, MaxLine))),
              Fn(At(1, TopLines),
                 Snippet("direct", ptrBatchReadOnlyTransaction, "NewResource", {},
                         At(1, MaxLine))) >>) :
        op \in ForwardOps, t \in ResourceTypes, fp \in {NoPos, At(1, MaxLine)},
        deferred \in {"source", "forward", "none"} }

\* A call with several results, two of them handles:
\*   a, b, err := callee()
\* and the deferred cleanup of those in covered (1 for a, 2 for b).
Tuple2(t1, t2, covered, p) ==
    << Ins("Call", NotNamed, "", "NewResources", p, <<>>),
       Ins("Extract", t1, "", "", NoPos, <<1>>),
       Ins("Extract", t2, "", "", NoPos, <<1>>) >>
    \o (IF 1 \in covered
        THEN <<Ins("Defer", NotNamed, "", methodNameClose, p, <<2>>)>>
        ELSE <<>>)
    \o (IF 2 \in covered
        THEN <<Ins("Defer", NotNamed, "", methodNameStop, p, <<3>>)>>
        ELSE <<>>)

\* Tuple units: one function with one call of two handle results.
TupleUnits ==
    { Unit(<<mainPkg, spannerPkg>>, <<File(nameMain, <<>>)>>,
           <<Fn(At(1, TopLines), Tuple2(t1, t2, covered, At(1, MaxLine)))>>) :
        t1 \in ResourceTypes, t2 \in ResourceTypes, covered \in SUBSET {1, 2} }

\* An iterator queried from a Single() transaction:
\*   iter := client.Single().Query(ctx, stmt)
\* followed by  defer iter.Stop()  ("defer"),  iter.Stop()  ("call") or
\* nothing ("none").  Single is called as a concrete method ("direct") or
\* through an interface ("invoke").
Chain(mode, cleanup, p) ==
    Producer(mode, ptrReadOnlyTransaction, methodNameSingle, p)
    \o << Ins("Call", ptrRowIterator, "", "Query", p, <<1>>) >>
    \o (CASE cleanup = "defer" ->
                <<Ins("Defer", NotNamed, "", methodNameStop, p, <<2>>)>>
           [] cleanup = "call" ->
                <<Ins("Call", NotNamed, "", methodNameStop, p, <<2>>)>>
           [] cleanup = "none" -> <<>>)

Cleanups == {"defer", "call", "none"}

\* Chain units: one function with two such iterators.
ChainUnits ==
    { Unit(<<mainPkg, spannerPkg>>, <<File(nameMain, <<>>)>>,
           <<Fn(At(1, TopLines),
                Body2(Chain(mode, c1, At(1, MaxLine)),
                      Chain(mode, c2, At(1, MaxLine))))>>) :
        mode \in {"direct", "invoke"}, c1 \in Cleanups, c2 \in Cleanups }

\* The body of the helper that a function passes its handle to: the handle
\* is a parameter of the helper, not one of its instructions.
\*   func closeHelper(txn) { defer txn.Close() }      (defers = TRUE)
\*   func closeHelper(txn) { return }                 (defers = FALSE)
HelperBody(defers, p) ==
    (IF defers THEN <<Ins("Defer", NotNamed, "", methodNameClose, p, <<>>)>>
     ELSE <<>>)
    \o <<Ins("Return", NotNamed, "", "", p, <<>>)>>

\* Helper units: a function that passes its handle to closeHelper, and
\* closeHelper, which defers the cleanup or does not.
HelperUnits ==
    { Unit(<<mainPkg, spannerPkg>>, <<File(nameMain, <<>>)>>,
           << Fn(At(1, TopLines),
                 Indirect("helper", Producer(kind, t, "NewResource", At(1, MaxLine)),
                          t, methodNameClose, At(1, MaxLine))),
              Fn(At(1, TopLines + 1), HelperBody(defers, At(1, MaxLine))) >>) :
        kind \in {"direct", "extract"}, t \in ResourceTypes,
        defers \in BOOLEAN }

Units ==
    CoverageUnits \cup SuppressionUnits \cup FileUnits \cup RegistryUnits
        \cup IndirectUnits \cup ForwardUnits \cup TupleUnits \cup ChainUnits
        \cup HelperUnits

Init ==
    /\ \E u \in Units :
           /\ pkgs = u.pkgs
           /\ files = u.files
           /\ srcFuncs = u.funcs
    /\ spannerTypes = EmptyMap
    /\ pc = "start"
    /\ fi = 1
    /\ ii = 0
    /\ diags = <<>>
    /\ consulted = <<>>

(***************************************************************************)
(* The run of deferOnlyAnalyzer.                                           *)
(***************************************************************************)
\* Build the registry; return at once when it is empty.
deferOnlyAnalyzer ==
    /\ pc = "start"
    /\ spannerTypes' = RegisteredTypes
    /\ pc' = IF DOMAIN RegisteredTypes = {} THEN "done" ELSE "scan"
    /\ UNCHANGED <<pkgs, files, srcFuncs, fi, ii, diags, consulted>>

\* checkFunc on a function of a generated (or file-level suppressed) file.
checkFuncSkip ==
    /\ pc = "scan"
    /\ fi <= Len(srcFuncs)
    /\ ii = 0
    /\ isGeneratedFile(srcFuncs[fi].pos)
    /\ fi' = fi + 1
    /\ UNCHANGED <<pkgs, files, srcFuncs, spannerTypes, pc, ii, diags, consulted>>

\* checkFuncEnter mutant: every function starts a collection of its own.
checkFuncEnterFreshCollection ==
    /\ pc = "scan"
    /\ fi <= Len(srcFuncs)
    /\ ii = 0
    /\ ~isGeneratedFile(srcFuncs[fi].pos)
    /\ ii' = 1
    /\ diags' = <<>>
    /\ UNCHANGED <<pkgs, files, srcFuncs, spannerTypes, pc, fi, consulted>>

\* checkFunc starts the scan of the instructions.
checkFuncEnter ==
    /\ pc = "scan"
    /\ fi <= Len(srcFuncs)
    /\ ii = 0
    /\ ~isGeneratedFile(srcFuncs[fi].pos)
    /\ ii' = 1
    /\ UNCHANGED <<pkgs, files, srcFuncs, spannerTypes, pc, fi, diags, consulted>>

\* checkFuncStep mutant: the scan of the function stops at the first report.
checkFuncStepStopAtReport ==
    /\ pc = "scan"
    /\ fi <= Len(srcFuncs)
    /\ ii >= 1
    /\ ii <= Len(srcFuncs[fi].instrs)
    /\ diags' = diags \o checkInstr(fi, ii)
    /\ ii' = IF checkInstr(fi, ii) = <<>> THEN ii + 1
             ELSE Len(srcFuncs[fi].instrs) + 1
    /\ consulted' = checkOrder(fi, ii)
    /\ UNCHANGED <<pkgs, files, srcFuncs, spannerTypes, pc, fi>>

\* One iteration of the instruction loop of checkFunc.
checkFuncStep ==
    /\ pc = "scan"
    /\ fi <= Len(srcFuncs)
    /\ ii >= 1
    /\ ii <= Len(srcFuncs[fi].instrs)
    /\ diags' = diags \o checkInstr(fi, ii)
    /\ ii' = ii + 1
    /\ consulted' = checkOrder(fi, ii)
    /\ UNCHANGED <<pkgs, files, srcFuncs, spannerTypes, pc, fi>>

\* The instruction loop is over: checkFunc returns.
checkFuncReturn ==
    /\ pc = "scan"
    /\ fi <= Len(srcFuncs)
    /\ ii > Len(srcFuncs[fi].instrs)
    /\ fi' = fi + 1
    /\ ii' = 0
    /\ UNCHANGED <<pkgs, files, srcFuncs, spannerTypes, pc, diags, consulted>>

\* The loop over SrcFuncs is over: deferOnlyAnalyzer returns nil, nil.
analyzerReturn ==
    /\ pc = "scan"
    /\ fi > Len(srcFuncs)
    /\ pc' = "done"
    /\ UNCHANGED <<pkgs, files, srcFuncs, spannerTypes, fi, ii, diags, consulted>>

Next ==
    \/ deferOnlyAnalyzer
    \/ checkFuncSkip
    \/ checkFuncEnter
    \/ checkFuncStep
    \/ checkFuncReturn
    \/ analyzerReturn

Spec == Init /\ [][Next]_vars

\* The analyzer is one sequential run that nothing suspends: a step that
\* can be taken is taken.
FairSpec == Spec /\ WF_vars(Next)

(***************************************************************************)
(* The same checkFunc, run on the functions of the unit in any order and   *)
(* interleaved: a driver that starts one checkFunc per function and lets   *)
(* them run together, each pass.Reportf being one atomic append.  Here ii  *)
(* holds one cursor per function (0 before checkFunc is entered, else the  *)
(* index of the next instruction) and fi is not used.                      *)
(***************************************************************************)
\* The units with several functions, and those with several values.
ConcurrentUnits ==
    FileUnits \cup ForwardUnits \cup HelperUnits \cup ChainUnits \cup TupleUnits

ConcurrentInit ==
    /\ \E u \in ConcurrentUnits :
           /\ pkgs = u.pkgs
           /\ files = u.files
           /\ srcFuncs = u.funcs
           /\ ii = [f \in DOMAIN u.funcs |-> 0]
    /\ spannerTypes = EmptyMap
    /\ pc = "start"
    /\ fi = 1
    /\ diags = <<>>
    /\ consulted = <<>>

\* The cursor of a function whose checkFunc has returned.
Finished(f) == Len(srcFuncs[f].instrs) + 1

\* checkFunc on function f of a generated (or file-level suppressed) file.
checkFuncSkipOf(f) ==
    /\ pc = "scan"
    /\ ii[f] = 0
    /\ isGeneratedFile(srcFuncs[f].pos)
    /\ ii' = [ii EXCEPT ![f] = Finished(f)]
    /\ UNCHANGED <<pkgs, files, srcFuncs, spannerTypes, pc, fi, diags, consulted>>

\* checkFunc on function f starts the scan of the instructions.
checkFuncEnterOf(f) ==
    /\ pc = "scan"
    /\ ii[f] = 0
    /\ ~isGeneratedFile(srcFuncs[f].pos)
    /\ ii' = [ii EXCEPT ![f] = 1]
    /\ UNCHANGED <<pkgs, files, srcFuncs, spannerTypes, pc, fi, diags, consulted>>

\* checkFuncStepOf mutant: the append is not atomic; the report is added to
\* the diagnostics of the function itself and the others are lost.
checkFuncStepOfLostAppend(f) ==
    /\ pc = "scan"
    /\ ii[f] >= 1
    /\ ii[f] <= Len(srcFuncs[f].instrs)
    /\ diags' = IF checkInstr(f, ii[f]) = <<>> THEN diags
                ELSE LET OfF(d) == d.val[1] = f
                     IN  SelectSeq(diags, OfF) \o checkInstr(f, ii[f])
    /\ consulted' = checkOrder(f, ii[f])
    /\ ii' = [ii EXCEPT ![f] = @ + 1]
    /\ UNCHANGED <<pkgs, files, srcFuncs, spannerTypes, pc, fi>>

\* One iteration of the instruction loop of checkFunc on function f.
checkFuncStepOf(f) ==
    /\ pc = "scan"
    /\ ii[f] >= 1
    /\ ii[f] <= Len(srcFuncs[f].instrs)
    /\ diags' = diags \o checkInstr(f, ii[f])
    /\ consulted' = checkOrder(f, ii[f])
    /\ ii' = [ii EXCEPT ![f] = @ + 1]
    /\ UNCHANGED <<pkgs, files, srcFuncs, spannerTypes, pc, fi>>

\* Every checkFunc has returned: deferOnlyAnalyzer returns nil, nil.
analyzerReturnAll ==
    /\ pc = "scan"
    /\ \A f \in DOMAIN srcFuncs : ii[f] = Finished(f)
    /\ pc' = "done"
    /\ UNCHANGED <<pkgs, files, srcFuncs, spannerTypes, fi, ii, diags, consulted>>

ConcurrentNext ==
    \/ deferOnlyAnalyzer
    \/ \E f \in DOMAIN srcFuncs : checkFuncSkipOf(f)
    \/ \E f \in DOMAIN srcFuncs : checkFuncEnterOf(f)
    \/ \E f \in DOMAIN srcFuncs : checkFuncStepOf(f)
    \/ analyzerReturnAll

ConcurrentSpec == ConcurrentInit /\ [][ConcurrentNext]_vars

(***************************************************************************)
(* The resource descriptors (types.go) and the vocabulary of the           *)
(* properties below.                                                       *)
(***************************************************************************)
ResourceType(name, closeMethod) == [Name |-> name, CloseMethod |-> closeMethod]

CloseMessage(rt) == <<rt.Name, ".", rt.CloseMethod, mustBeDeferred>>

spannerResourceTypes ==
    [n \in {typeNameReadOnlyTransaction, typeNameBatchReadOnlyTransaction,
            typeNameRowIterator} |->
        IF n = typeNameRowIterator
        THEN ResourceType(n, methodNameStop)
        ELSE ResourceType(n, methodNameClose)]

TransactionLike == {typeNameReadOnlyTransaction, typeNameBatchReadOnlyTransaction}

\* All the values of the unit, as <<function, instruction>> pairs.
AllValues ==
    { v \in UNION {{<<f, i>> : i \in DOMAIN srcFuncs[f].instrs} : f \in DOMAIN srcFuncs} :
        IsValue(srcFuncs[v[1]].instrs[v[2]]) }

InstrOf(v) == srcFuncs[v[1]].instrs[v[2]]

\* The names the Spanner package of the unit declares, among the three.
Declared ==
    LET sp == {k \in DOMAIN pkgs : pkgs[k].path = pathGoogleSpanner}
    IN  IF sp = {} THEN {}
        ELSE pkgs[CHOOSE k \in sp : \A j \in sp : k <= j].scope
                 \cap DOMAIN spannerResourceTypes

\* The resource name of a value: its type, or the type it points to, is one
\* of the declared Spanner resource types.  "" for any other value.
ResourceName(v) ==
    LET t == InstrOf(v).type
    IN  IF t.ptr <= 1 /\ t.pkg = pathGoogleSpanner /\ t.name \in Declared
        THEN t.name ELSE ""

Candidates == {v \in AllValues : ResourceName(v) # ""}

Users(v) == {j \in DOMAIN srcFuncs[v[1]].instrs :
                \E k \in DOMAIN srcFuncs[v[1]].instrs[j].ops :
                    srcFuncs[v[1]].instrs[j].ops[k] = v[2]}

DiagsFor(v) == {k \in DOMAIN diags : diags[k].val = v}

Reported(v) == DiagsFor(v) # {}

\* The call that allocated the value: the value itself, or the multi-result
\* call it was extracted from.
ProducingCall(v) ==
    IF InstrOf(v).op = "Extract"
    THEN <<v[1], InstrOf(v).ops[1]>>
    ELSE v

\* The instruction calls something named m, as a method or as a function.
CallsNamed(in, m) == in.method = m \/ (in.method = "" /\ in.value = m)

\* A defer of the cleanup method of the value's own descriptor on the value.
DeferredCleanup(v) ==
    \E j \in Users(v) :
        /\ srcFuncs[v[1]].instrs[j].op = "Defer"
        /\ CallsNamed(srcFuncs[v[1]].instrs[j],
                      spannerResourceTypes[ResourceName(v)].CloseMethod)

\* No defer uses the value, and no defer uses a Close or Stop call on it.
NoDefer(v) ==
    \A j \in Users(v) :
        /\ srcFuncs[v[1]].instrs[j].op # "Defer"
        /\ ( /\ srcFuncs[v[1]].instrs[j].op = "Call"
             /\ \/ CallsNamed(srcFuncs[v[1]].instrs[j], methodNameClose)
                \/ CallsNamed(srcFuncs[v[1]].instrs[j], methodNameStop) )
           => \A d \in Users(<<v[1], j>>) :
                  srcFuncs[v[1]].instrs[d].op # "Defer"

\* Close or Stop is called on the value by a call that is not deferred.
CleanupCalledNotDeferred(v) ==
    \E j \in Users(v) :
        /\ srcFuncs[v[1]].instrs[j].op = "Call"
        /\ \/ CallsNamed(srcFuncs[v[1]].instrs[j], methodNameClose)
           \/ CallsNamed(srcFuncs[v[1]].instrs[j], methodNameStop)

\* The value is the result of a call of Single.
FromSingle(v) ==
    /\ InstrOf(ProducingCall(v)).op = "Call"
    /\ CallsNamed(InstrOf(ProducingCall(v)), methodNameSingle)

\* The value is an operand of a return.
Returned(v) ==
    \E j \in Users(v) : srcFuncs[v[1]].instrs[j].op = "Return"

\* The exemptions as the code grants them.
Exempt(v) ==
    \/ /\ ResourceName(v) = typeNameReadOnlyTransaction
       /\ InstrOf(v).op = "Call"
       /\ FromSingle(v)
    \/ ResourceName(v) = typeNameRowIterator /\ Returned(v)

\* The function of the value is in a file that checkFunc skips.
InSkippedFile(v) == isGeneratedFile(srcFuncs[v[1]].pos)

\* The suppression filter withholds a report at the value's report position.
Suppressed(v) == hasNolintDirective(InstrOf(ProducingCall(v)).pos)

\* The default coverage check decides about the value.
Plain(v) == ~Exempt(v) /\ ~Suppressed(v) /\ ~InSkippedFile(v)

\* The comments of the file of value v, as <<group, index>> pairs, that are
\* written on line l.
CommentsOnLine(file, l) ==
    { c \in UNION {{<<g, k>> : k \in DOMAIN files[file].comments[g].list} :
                    g \in DOMAIN files[file].comments} :
        files[file].comments[c[1]].line + c[2] - 1 = l }

TextOf(file, c) == files[file].comments[c[1]].list[c[2]]

\* A directive of one of the three forms is written on the line of the
\* value's report position or on the line before.
HasAdjacentDirective(v) ==
    LET p == InstrOf(ProducingCall(v)).pos
    IN  /\ p.file \in DOMAIN files
        /\ \E l \in {p.line, p.line - 1} :
               \E c \in CommentsOnLine(p.file, l) :
                   TextOf(p.file, c) \in DirectiveTexts

\* A targeted or all-tools directive is written in the first ten lines.
HasTopDirective(file) ==
    \E l \in 1..TopLines :
        \E c \in CommentsOnLine(file, l) :
            TextOf(file, c) \in {txtTargeted, txtAll}

GeneratedName(file) == files[file].name \in FileNames \ {nameMain}

Done == pc = "done"

\* C1: a candidate with a deferred call of its own cleanup method on it,
\* produced by a call or extracted from a multi-result call, is never
\* reported.
C1_DeferredCleanupNotReported ==
    \A v \in Candidates : DeferredCleanup(v) => ~Reported(v)

C1_Witness ==
    /\ Done
    /\ \E v \in Candidates :
           /\ DeferredCleanup(v)
           /\ InstrOf(v).op = "Extract"
           /\ Plain(v)

\* C2: when the analysis is over, a candidate that is not exempt, not
\* suppressed, not in a skipped file, and that no defer uses, directly or
\* through a Close or Stop call, has exactly one diagnostic, positioned at
\* its producing call.
C2_UncoveredReportedOnce ==
    Done =>
        \A v \in Candidates :
            (Plain(v) /\ NoDefer(v)) =>
                /\ Cardinality(DiagsFor(v)) = 1
                /\ \A k \in DiagsFor(v) :
                       diags[k].pos = InstrOf(ProducingCall(v)).pos

C2_Witness ==
    /\ Done
    /\ \E v \in Candidates :
           /\ Plain(v)
           /\ NoDefer(v)
           /\ Users(v) # {}
           /\ files[srcFuncs[v[1]].pos.file].comments # <<>>
           /\ Cardinality(DiagsFor(v)) = 1

\* C3: when the analysis is over, a candidate (not exempt, not suppressed,
\* not in a skipped file) on which Close or Stop is called by a call that
\* is not deferred, and that no defer uses, has exactly one diagnostic.
C3_NonDeferredCleanupReported ==
    Done =>
        \A v \in Candidates :
            (Plain(v) /\ CleanupCalledNotDeferred(v) /\ NoDefer(v)) =>
                Cardinality(DiagsFor(v)) = 1

C3_Witness ==
    /\ Done
    /\ \E v \in Candidates :
           /\ Plain(v)
           /\ CleanupCalledNotDeferred(v)
           /\ NoDefer(v)
           /\ ResourceName(v) = typeNameRowIterator
           /\ Cardinality(DiagsFor(v)) = 1

\* C4: every diagnostic message is the CloseMessage of the descriptor of
\* the reported candidate: <Name>.<CloseMethod>() must be deferred.
C4_MessageOfDescriptor ==
    \A k \in DOMAIN diags :
        /\ ResourceName(diags[k].val) # ""
        /\ diags[k].message =
               CloseMessage(spannerResourceTypes[ResourceName(diags[k].val)])

\* C5, as stated: a ReadOnlyTransaction or BatchReadOnlyTransaction whose
\* producing call is a call of Single is never reported.
C5_TransactionFromSingleNotReported ==
    \A v \in Candidates :
        (ResourceName(v) \in TransactionLike /\ FromSingle(v)) => ~Reported(v)

\* C5, amended: a ReadOnlyTransaction that is itself the result of a call
\* of Single, as an interface method or as a concrete method, is never
\* reported.
C5_ReadOnlyTransactionFromSingleNotReported ==
    \A v \in Candidates :
        ( /\ ResourceName(v) = typeNameReadOnlyTransaction
          /\ InstrOf(v).op = "Call"
          /\ FromSingle(v) ) => ~Reported(v)

C5_Witness ==
    /\ Done
    /\ \E v \in Candidates :
           /\ ResourceName(v) = typeNameReadOnlyTransaction
           /\ InstrOf(v).op = "Call"
           /\ InstrOf(v).method = methodNameSingle
           /\ NoDefer(v)
           /\ ~Suppressed(v)
           /\ ~InSkippedFile(v)

\* C6: a RowIterator that is an operand of a return of its function is
\* never reported.
C6_ReturnedIteratorNotReported ==
    \A v \in Candidates :
        (ResourceName(v) = typeNameRowIterator /\ Returned(v)) => ~Reported(v)

C6_Witness ==
    /\ Done
    /\ \E v \in Candidates :
           /\ ResourceName(v) = typeNameRowIterator
           /\ Returned(v)
           /\ NoDefer(v)
           /\ ~Suppressed(v)
           /\ ~InSkippedFile(v)

\* C7: when the analysis is over, if a candidate of a function has a
\* directive on its line or on the line before, every other candidate of
\* that function that is uncovered, not exempt and has no such directive
\* of its own is still reported, once.
C7_SuppressionIsLocal ==
    Done =>
        \A v \in Candidates : \A w \in Candidates :
            ( /\ v # w
              /\ v[1] = w[1]
              /\ HasAdjacentDirective(v)
              /\ ~HasAdjacentDirective(w)
              /\ ~GeneratedName(srcFuncs[w[1]].pos.file)
              /\ ~Exempt(w)
              /\ NoDefer(w) ) => Cardinality(DiagsFor(w)) = 1

\* C8: a candidate with a targeted, all-tools or bare directive written on
\* the line of its report position, or on the line before, is not reported.
C8_AdjacentDirectiveSuppresses ==
    \A v \in Candidates : HasAdjacentDirective(v) => ~Reported(v)

\* C9: no candidate of a function whose file has a targeted or all-tools
\* directive in its first ten lines is reported.
C9_TopDirectiveSilencesFile ==
    \A v \in Candidates :
        ( /\ srcFuncs[v[1]].pos.file \in DOMAIN files
          /\ HasTopDirective(srcFuncs[v[1]].pos.file) ) => ~Reported(v)

C9_Witness ==
    /\ Done
    /\ \E v \in Candidates :
           /\ HasTopDirective(srcFuncs[v[1]].pos.file)
           /\ ~GeneratedName(srcFuncs[v[1]].pos.file)
           /\ ~HasAdjacentDirective(v)
           /\ ~Exempt(v)
           /\ NoDefer(v)
           /\ Len(srcFuncs) > 1

\* C10: a diagnostic for an extracted value is positioned at the call the
\* value is extracted from, not at the Extract; a diagnostic for the result
\* of a call is positioned at that call.
C10_PositionOfProducingCall ==
    \A k \in DOMAIN diags :
        /\ InstrOf(diags[k].val).op = "Extract" =>
               /\ diags[k].pos = InstrOf(ProducingCall(diags[k].val)).pos
               /\ InstrOf(ProducingCall(diags[k].val)).op = "Call"
        /\ InstrOf(diags[k].val).op = "Call" =>
               diags[k].pos = InstrOf(diags[k].val).pos

C10_Witness ==
    /\ Done
    /\ \E k \in DOMAIN diags :
           /\ InstrOf(diags[k].val).op = "Extract"
           /\ diags[k].pos # InstrOf(diags[k].val).pos

\* The value is stored into a memory cell (a variable or a struct field).
Stored(v) ==
    \E j \in Users(v) :
        /\ srcFuncs[v[1]].instrs[j].op = "Store"
        /\ srcFuncs[v[1]].instrs[j].ops[Len(srcFuncs[v[1]].instrs[j].ops)] = v[2]

\* The loads of the cell the value is stored into: for a struct field, the
\* loads through any address of a field of the same struct.
LoadsOf(v) ==
    LET ins == srcFuncs[v[1]].instrs
        cells == {ins[j].ops[1] : j \in {j \in Users(v) : ins[j].op = "Store" /\ Len(ins[j].ops) = 2}}
        bases == cells \cup UNION {Range(ins[a].ops) : a \in {a \in cells : ins[a].op = "FieldAddr"}}
        addrs == bases \cup {a \in DOMAIN ins : ins[a].op = "FieldAddr" /\ Range(ins[a].ops) \cap bases # {}}
    IN  {<<v[1], l>> : l \in {l \in DOMAIN ins : ins[l].op = "UnOp" /\ Range(ins[l].ops) \cap addrs # {}}}

\* The value is an argument of a call of a function that is not one of the
\* cleanup methods, and the call is not deferred.
PassedToHelper(v) ==
    \E j \in Users(v) :
        /\ srcFuncs[v[1]].instrs[j].op = "Call"
        /\ ~CallsNamed(srcFuncs[v[1]].instrs[j], methodNameClose)
        /\ ~CallsNamed(srcFuncs[v[1]].instrs[j], methodNameStop)
        /\ \A d \in Users(<<v[1], j>>) : srcFuncs[v[1]].instrs[d].op # "Defer"

\* C11: when the analysis is over, a candidate (not exempt, not suppressed,
\* not in a skipped file) that no defer uses, and that is stored into a
\* variable or a struct field or passed to a non-deferred helper call, has
\* exactly one diagnostic, also when cleanup is deferred on a value loaded
\* back from the variable or field.
C11_IndirectCleanupReported ==
    Done =>
        \A v \in Candidates :
            (Plain(v) /\ NoDefer(v) /\ (Stored(v) \/ PassedToHelper(v))) =>
                Cardinality(DiagsFor(v)) = 1

C11_Witness ==
    /\ Done
    /\ \E v \in Candidates :
           /\ Plain(v)
           /\ NoDefer(v)
           /\ Stored(v)
           /\ \E a \in DOMAIN srcFuncs[v[1]].instrs :
                  srcFuncs[v[1]].instrs[a].op = "FieldAddr"
           /\ \E w \in LoadsOf(v) : w \in Candidates /\ DeferredCleanup(w)
           /\ Cardinality(DiagsFor(v)) = 1

\* C12: when the Spanner package is not among the packages of the unit, or
\* declares none of the three names, the analysis goes from its start to
\* its end (the only result is nil, nil): there is no diagnostic and no
\* function or instruction is visited.
C12_EmptyRegistryEndsAtOnce ==
    (Declared = {} /\ pc # "start") =>
        /\ Done
        /\ diags = <<>>
        /\ fi = 1
        /\ ii = 0
        /\ DOMAIN spannerTypes = {}

C12_Witness ==
    /\ Done
    /\ Declared = {}
    /\ \E k \in DOMAIN pkgs : pkgs[k].path = pathGoogleSpanner
    /\ \E v \in AllValues :
           /\ InstrOf(v).type = ptrReadOnlyTransaction
           /\ Users(v) = {}
           /\ ~isGeneratedFile(srcFuncs[v[1]].pos)

C14_GeneratedFileSkipped ==
    \A v \in AllValues :
        ( /\ srcFuncs[v[1]].pos.file \in DOMAIN files
          /\ GeneratedName(srcFuncs[v[1]].pos.file) ) => ~Reported(v)

C14_Witness ==
    /\ Done
    /\ \E v \in Candidates :
           /\ files[srcFuncs[v[1]].pos.file].name = nameGenerated
           /\ ~HasTopDirective(srcFuncs[v[1]].pos.file)
           /\ ~HasAdjacentDirective(v)
           /\ ~Exempt(v)
           /\ NoDefer(v)
           /\ ~Reported(v)
           /\ \E w \in Candidates : w[1] > v[1] /\ Reported(w)

\* The comments written on the line of the value's report position or on
\* the line before.
AdjacentComments(v) ==
    LET p == InstrOf(ProducingCall(v)).pos
    IN  IF p.file \in DOMAIN files
        THEN CommentsOnLine(p.file, p.line) \cup CommentsOnLine(p.file, p.line - 1)
        ELSE {}

\* C15: when the analysis is over, a candidate (not exempt, not in a
\* skipped file) that no defer uses, and whose adjacent comments are all of
\* another form than the targeted, all-tools and bare directives (a
\* misspelled targeted token, nolint: with the name of another tool, plain
\* text), has exactly one diagnostic.
C15_UnrecognizedCommentDoesNotSuppress ==
    Done =>
        \A v \in Candidates :
            ( /\ ~Exempt(v)
              /\ ~InSkippedFile(v)
              /\ NoDefer(v)
              /\ AdjacentComments(v) # {}
              /\ \A c \in AdjacentComments(v) :
                     TextOf(InstrOf(ProducingCall(v)).pos.file, c) \notin DirectiveTexts )
                => Cardinality(DiagsFor(v)) = 1

C15_Witness ==
    /\ Done
    /\ \E v \in Candidates :
           /\ ~Exempt(v)
           /\ ~InSkippedFile(v)
           /\ NoDefer(v)
           /\ \E c \in AdjacentComments(v) :
                  TextOf(InstrOf(ProducingCall(v)).pos.file, c) = txtMisspelled
           /\ \A c \in AdjacentComments(v) :
                  TextOf(InstrOf(ProducingCall(v)).pos.file, c) \notin DirectiveTexts
           /\ Cardinality(DiagsFor(v)) = 1

\* C16: a value whose report position maps to no file has no diagnostic.
C16_NoFileNoDiagnostic ==
    \A v \in AllValues :
        InstrOf(ProducingCall(v)).pos.file \notin DOMAIN files => ~Reported(v)

\* C17: the analysis reaches its end.  On the way, the instructions of a
\* function are visited one by one in order, a function is left only when
\* it is skipped or when its last instruction has been visited, the run
\* ends only after the last function, and a step adds at most the
\* diagnostic of the instruction it visits.  At the end every candidate
\* that is not exempt, not suppressed, not in a skipped file and that no
\* defer uses has its diagnostic.
C17_TerminatesHavingReportedAll ==
    /\ <>Done
    /\ [][ /\ fi' # fi =>
                /\ fi' = fi + 1
                /\ ii' = 0
                /\ \/ ii = 0 /\ isGeneratedFile(srcFuncs[fi].pos)
                   \/ ii = Len(srcFuncs[fi].instrs) + 1
           /\ (fi' = fi /\ ii' # ii) =>
                /\ ii' = ii + 1
                /\ ii' <= Len(srcFuncs[fi].instrs) + 1
                /\ ~isGeneratedFile(srcFuncs[fi].pos)
           /\ (pc = "scan" /\ pc' = "done") => fi = Len(srcFuncs) + 1
           /\ diags' # diags =>
                /\ Len(diags') = Len(diags) + 1
                /\ SubSeq(diags', 1, Len(diags)) = diags
                /\ diags'[Len(diags')].val = <<fi, ii>>
                /\ ii' = ii + 1 ]_vars
    /\ [](Done => \A v \in Candidates :
                      (Plain(v) /\ NoDefer(v)) => Reported(v))

C17_Witness ==
    /\ Done
    /\ Len(srcFuncs) > 1
    /\ Len(diags) > 1
    /\ \E v \in Candidates : \E w \in Candidates :
           /\ v[1] = w[1]
           /\ v[2] < w[2]
           /\ Reported(v)
           /\ Reported(w)
    /\ \E v \in Candidates : \E w \in Candidates :
           /\ v[1] < w[1]
           /\ Reported(v)
           /\ Reported(w)

\* The method calls on the value whose result a defer uses (path b).
DeferredMethodCalls(v) ==
    { j \in Users(v) :
        /\ srcFuncs[v[1]].instrs[j].op = "Call"
        /\ srcFuncs[v[1]].instrs[j].method # ""
        /\ \E d \in Users(<<v[1], j>>) : srcFuncs[v[1]].instrs[d].op = "Defer" }

\* No defer has the value as an operand (path a).
NoDirectDefer(v) ==
    \A j \in Users(v) : srcFuncs[v[1]].instrs[j].op # "Defer"

\* C18: when the analysis is over, a candidate (not exempt, not suppressed,
\* not in a skipped file) that no defer has as an operand, and on which
\* every method call whose result is deferred is a call of another method
\* than the cleanup method of its own descriptor, has its diagnostic.
C18_OtherMethodDoesNotCover ==
    Done =>
        \A v \in Candidates :
            ( /\ Plain(v)
              /\ NoDirectDefer(v)
              /\ \A j \in DeferredMethodCalls(v) :
                     srcFuncs[v[1]].instrs[j].method #
                         spannerResourceTypes[ResourceName(v)].CloseMethod )
                => Cardinality(DiagsFor(v)) = 1

\* C19: a candidate that is an operand of a defer is never reported,
\* whatever the deferred function or method is.
C19_DirectDeferCoversWhateverCallee ==
    \A v \in Candidates : ~NoDirectDefer(v) => ~Reported(v)

C19_Witness ==
    /\ Done
    /\ \E v \in Candidates :
           /\ Plain(v)
           /\ \E j \in Users(v) :
                  /\ srcFuncs[v[1]].instrs[j].op = "Defer"
                  /\ srcFuncs[v[1]].instrs[j].value = "helper"
           /\ \A j \in Users(v) :
                  ~CallsNamed(srcFuncs[v[1]].instrs[j],
                              spannerResourceTypes[ResourceName(v)].CloseMethod)
           /\ DeferredMethodCalls(v) = {}
           /\ ~Reported(v)

\* C20: every diagnostic is made for the result of a call, or for a value
\* extracted from the results of a call, and is positioned at that call;
\* a load, a phi, a type assertion or a conversion has no diagnostic.
C20_OnlyProducingOperationsReported ==
    \A k \in DOMAIN diags :
        /\ InstrOf(diags[k].val).op \in {"Call", "Extract"}
        /\ InstrOf(ProducingCall(diags[k].val)).op = "Call"
        /\ diags[k].pos = InstrOf(ProducingCall(diags[k].val)).pos

\* C21: in every state, every value has at most one diagnostic.
C21_AtMostOneDiagnosticPerValue ==
    \A v \in AllValues : Cardinality(DiagsFor(v)) <= 1

C21_Witness ==
    /\ Done
    /\ Len(srcFuncs) > 1
    /\ Len(diags) > 2
    /\ \A v \in Candidates : Cardinality(DiagsFor(v)) = 1

\* The calls of the unit, as <<function, instruction>> pairs.
AllCalls == {c \in AllValues : InstrOf(c).op = "Call"}

\* The diagnostics made for the result of call c or for a value extracted
\* from its results: the diagnostics positioned at c.
DiagsAt(c) == {k \in DOMAIN diags : ProducingCall(diags[k].val) = c}

\* C22: at most one diagnostic is positioned at a call, also when several
\* values are extracted from its results.
C22_AtMostOneDiagnosticPerCall ==
    \A c \in AllCalls : Cardinality(DiagsAt(c)) <= 1

\* The instruction loop has just visited value v.
JustVisited(v) ==
    /\ pc = "scan"
    /\ fi = v[1]
    /\ ii = v[2] + 1

\* The place of check c among the checks called for the last instruction,
\* 0 when it was not called.
PlaceOf(c) ==
    IF \E k \in DOMAIN consulted : consulted[k] = c
    THEN CHOOSE k \in DOMAIN consulted : consulted[k] = c
    ELSE 0

\* C23, as stated: the positional filter is called before the coverage
\* check, and the coverage check is not called for a candidate that has a
\* positional directive.
C23_FilterBeforeCoverage ==
    \A v \in Candidates :
        JustVisited(v) =>
            /\ Suppressed(v) => PlaceOf("hasDeferredClose") = 0
            /\ PlaceOf("hasDeferredClose") > 0 =>
                   /\ PlaceOf("hasNolintDirective") > 0
                   /\ PlaceOf("hasNolintDirective") < PlaceOf("hasDeferredClose")

\* C23, amended: the coverage check is called for every candidate that is
\* not exempt, and before the positional filter; the positional filter is
\* called exactly for the candidates that are not exempt and that no defer
\* covers, so a covered candidate is never passed to it.
C23_CoverageBeforeFilter ==
    \A v \in Candidates :
        JustVisited(v) =>
            /\ PlaceOf("hasDeferredClose") > 0 <=> ~Exempt(v)
            /\ PlaceOf("hasNolintDirective") > 0 <=> (~Exempt(v) /\ NoDefer(v))
            /\ PlaceOf("hasNolintDirective") > 0 =>
                   PlaceOf("hasDeferredClose") < PlaceOf("hasNolintDirective")

C23_Witness ==
    \E v \in Candidates :
        /\ JustVisited(v)
        /\ HasAdjacentDirective(v)
        /\ Suppressed(v)
        /\ PlaceOf("hasDeferredClose") > 0
        /\ PlaceOf("hasNolintDirective") > PlaceOf("hasDeferredClose")
        /\ ~Reported(v)

\* C24: when the analysis is over, a candidate that is not exempt and that
\* no defer uses, in a file whose name is not a generated one and that has
\* no targeted or all-tools directive written on lines 1 to 10, and with no
\* directive on its own line or the line before, has its diagnostic:
\* neither a bare directive at the top of the file nor a directive from
\* line 11 on that is not adjacent to it suppresses anything.
C24_OnlyTopLinesSilenceFile ==
    Done =>
        \A v \in Candidates :
            ( /\ srcFuncs[v[1]].pos.file \in DOMAIN files
              /\ ~HasTopDirective(srcFuncs[v[1]].pos.file)
              /\ ~GeneratedName(srcFuncs[v[1]].pos.file)
              /\ ~HasAdjacentDirective(v)
              /\ ~Exempt(v)
              /\ NoDefer(v) ) => Cardinality(DiagsFor(v)) = 1

\* C25: when the analysis is over, a ReadOnlyTransaction or
\* BatchReadOnlyTransaction that is an operand of a return, that no defer
\* uses, and that is not exempt as the result of Single, not suppressed and
\* not in a skipped file, has its diagnostic.
C25_ReturnedTransactionReported ==
    Done =>
        \A v \in Candidates :
            ( /\ ResourceName(v) \in TransactionLike
              /\ Returned(v)
              /\ NoDefer(v)
              /\ Plain(v) ) => Cardinality(DiagsFor(v)) = 1

C25_Witness ==
    /\ Done
    /\ \E v \in Candidates :
           /\ ResourceName(v) = typeNameBatchReadOnlyTransaction
           /\ Returned(v)
           /\ Cardinality(Users(v)) = 1
           /\ Plain(v)
           /\ Cardinality(DiagsFor(v)) = 1

\* The Single() transactions that the call producing iterator v is made on.
SingleReceivers(v) ==
    { <<v[1], r>> : r \in
        { r \in Range(InstrOf(v).ops) :
            /\ <<v[1], r>> \in Candidates
            /\ ResourceName(<<v[1], r>>) = typeNameReadOnlyTransaction
            /\ InstrOf(<<v[1], r>>).op = "Call"
            /\ FromSingle(<<v[1], r>>) } }

\* C26: when the analysis is over, for a RowIterator produced by a call on
\* a Single() transaction: the transaction has no diagnostic; the iterator
\* has its diagnostic when no defer uses it (also when Stop is called
\* without defer), and has none when its Stop is deferred.
C26_SingleExemptsOnlyTransaction ==
    Done =>
        \A v \in Candidates :
            ( /\ ResourceName(v) = typeNameRowIterator
              /\ InstrOf(v).op = "Call"
              /\ SingleReceivers(v) # {}
              /\ ~Returned(v)
              /\ ~Suppressed(v)
              /\ ~InSkippedFile(v) ) =>
                /\ \A s \in SingleReceivers(v) : ~Reported(s)
                /\ NoDefer(v) => Cardinality(DiagsFor(v)) = 1
                /\ DeferredCleanup(v) => ~Reported(v)

C26_Witness ==
    /\ Done
    /\ \E v \in Candidates : \E w \in Candidates :
           /\ ResourceName(v) = typeNameRowIterator
           /\ ResourceName(w) = typeNameRowIterator
           /\ SingleReceivers(v) # {}
           /\ SingleReceivers(w) # {}
           /\ DeferredCleanup(v)
           /\ ~Reported(v)
           /\ NoDefer(w)
           /\ Reported(w)
           /\ \A s \in SingleReceivers(v) \cup SingleReceivers(w) :
                  Users(s) = {v[2]} \/ Users(s) = {w[2]}

\* The diagnostics that checkFunc gives for function f from instruction i
\* on.  They are computed from the instructions of f, the registry and the
\* files; no other function of the unit is read.
RECURSIVE FuncDiagsFrom(_, _)
FuncDiagsFrom(f, i) ==
    IF i > Len(srcFuncs[f].instrs) THEN <<>>
    ELSE checkInstr(f, i) \o FuncDiagsFrom(f, i + 1)

FuncDiags(f) ==
    IF isGeneratedFile(srcFuncs[f].pos) THEN <<>> ELSE FuncDiagsFrom(f, 1)

\* The diagnostics of the analysis that were made for function f.
DiagsOfFunc(f) ==
    LET OfF(d) == d.val[1] = f
    IN  SelectSeq(diags, OfF)

\* A diagnostic without the index of its function in the unit.
Anonymous(ds) ==
    [k \in DOMAIN ds |->
        [pos |-> ds[k].pos, message |-> ds[k].message, instr |-> ds[k].val[2]]]

RECURSIVE SequentialDiagsFrom(_)
SequentialDiagsFrom(f) ==
    IF f > Len(srcFuncs) THEN <<>>
    ELSE FuncDiags(f) \o SequentialDiagsFrom(f + 1)

SequentialDiags ==
    IF DOMAIN RegisteredTypes = {} THEN <<>> ELSE SequentialDiagsFrom(1)

\* The values that the analysis has to report.
ToReport == {v \in Candidates : Plain(v) /\ NoDefer(v)}

\* C28: when the functions are analysed in any order or interleaved, with
\* atomic appends, the final diagnostics are those of the sequential scan,
\* each of them once: one for each candidate that is not exempt, not
\* suppressed, not in a skipped file and that no defer uses.
C28_AnyOrderSameDiagnostics ==
    Done =>
        /\ Range(diags) = Range(SequentialDiags)
        /\ Len(diags) = Len(SequentialDiags)
        /\ {diags[k].val : k \in DOMAIN diags} = ToReport
        /\ \A v \in ToReport : Cardinality(DiagsFor(v)) = 1

C28_Witness ==
    /\ Done
    /\ Len(diags) = Len(SequentialDiags)
    /\ Range(diags) = Range(SequentialDiags)
    /\ diags # SequentialDiags
    /\ \E k \in DOMAIN diags : \E l \in DOMAIN diags :
           /\ k + 1 < l
           /\ diags[k].val[1] = diags[l].val[1]
           /\ diags[k + 1].val[1] # diags[k].val[1]

\* C29: once the registry is built, no step changes the registry, the
\* packages, the functions or the files, and every step leaves the
\* diagnostics as they are or adds diagnostics at their end; the step that
\* builds the registry changes none of the packages, functions, files and
\* diagnostics.
C29_OnlyDiagnosticsGrow ==
    [][ /\ pkgs' = pkgs
        /\ srcFuncs' = srcFuncs
        /\ files' = files
        /\ pc # "start" => spannerTypes' = spannerTypes
        /\ Len(diags') >= Len(diags)
        /\ SubSeq(diags', 1, Len(diags)) = diags ]_vars

C29_Witness ==
    /\ pc = "scan"
    /\ fi = 2
    /\ ii > 1
    /\ DOMAIN spannerTypes = DOMAIN RegisteredTypes
    /\ Cardinality(DOMAIN spannerTypes) = 3
    /\ Len(diags) > 1
    /\ \E k \in DOMAIN diags : diags[k].val[1] = 1
    /\ \E k \in DOMAIN diags : diags[k].val[1] = 2

\* C30: a function of a file that has a targeted or all-tools directive
\* written on one of the lines 1 to 10, as a comment of its own or after a
\* statement, is skipped: its instruction loop is never entered and none
\* of its values has a diagnostic, those before the line of the directive
\* included.
C30_TopDirectiveSkipsEveryFunction ==
    \A f \in DOMAIN srcFuncs :
        ( /\ srcFuncs[f].pos.file \in DOMAIN files
          /\ HasTopDirective(srcFuncs[f].pos.file) ) =>
            /\ (pc = "scan" /\ fi = f) => ii = 0
            /\ \A k \in DOMAIN diags : diags[k].val[1] # f

C30_Witness ==
    /\ Done
    /\ \E v \in Candidates : \E w \in Candidates :
           /\ InstrOf(v).pos.line = TopLines
           /\ \E c \in CommentsOnLine(InstrOf(v).pos.file, TopLines) :
                  TextOf(InstrOf(v).pos.file, c) \in {txtTargeted, txtAll}
           /\ w[1] = v[1]
           /\ InstrOf(w).op = "Call"
           /\ InstrOf(w).pos.line < TopLines
           /\ ~GeneratedName(srcFuncs[w[1]].pos.file)
           /\ ~HasAdjacentDirective(w)
           /\ ~Exempt(w)
           /\ NoDefer(w)
           /\ ~Reported(w)

====
